---- MODULE Spec2Model ----
(***************************************************************************)
(* Breakout-failure detection engine of agar-ikshit/breakout_failure.      *)
(*                                                                         *)
(* The program is a set of pure functions over an OHLCV frame:             *)
(*   breakout/indicators.py  compute_atr, find_local_maxima,               *)
(*                           find_local_minima                             *)
(*   breakout/analyzer.py    analyze_vrz_vwap (VWAP band detector)         *)
(* Each function is an operator computed the way the code computes it; an  *)
(* action applies it to the inputs held in the state.  Rows are 0-based as *)
(* in pandas; iloc(s, i) reads row i of a column.  Prices are integers and *)
(* every derived quantity (VWAP, rolling means, bands) is an exact         *)
(* rational [num, den] or NaN: float64 rounding is not modelled.           *)
(***************************************************************************)
EXTENDS Integers, Sequences, FiniteSets, TLC

VARIABLES
    series,        \* the pd.Series handed to find_local_maxima / find_local_minima
    df,            \* the OHLCV frame: a sequence of rows [High, Low, Close, Volume]
    k,             \* band / zone multiplier, a rational [num, den]
    window,        \* scanner window / rolling window
    period,        \* compute_atr's period
    lookahead,     \* VRZ lookahead L
    ran,           \* which functions have returned
    maxima_idx,    \* result of find_local_maxima
    minima_idx,    \* result of find_local_minima
    atr,           \* result of compute_atr
    failures,      \* result of analyze_vrz_vwap
    logged_error,  \* analyze_vrz_vwap took its except branch
    high_zone,     \* forward-filled high-zone row of the VRZ zone builder
    low_zone,      \* forward-filled low-zone row
    vrz_failures   \* result of detect_vrz_failures

vars == <<series, df, k, window, period, lookahead, ran, maxima_idx,
          minima_idx, atr, failures, logged_error, high_zone, low_zone,
          vrz_failures>>

-----------------------------------------------------------------------------
(* Bounds of the model. *)
MaxScanLen == 5
MaxVal == 3
MaxWindow == 2

-----------------------------------------------------------------------------
(* pandas / python primitives *)

\* series.iloc[i], 0-based
iloc(s, i) == s[i + 1]

\* range(a, b)
range(a, b) == {i \in a..(b - 1) : TRUE}

\* positions selected by series.iloc[a:b] for 0 <= a: the slice is clipped to
\* the length of the series
ilocSlice(n, a, b) == {j \in 0..(n - 1) : a <= j /\ j < b}

\* a python list built by appending, in ascending order, the members of a set
\* of integers (the order a for-loop over range() visits them)
RECURSIVE AscendingList(_)
AscendingList(S) ==
    IF S = {} THEN <<>>
    ELSE LET m == CHOOSE x \in S : \A y \in S : x <= y
         IN  <<m>> \o AscendingList(S \ {m})

AllSeqs(S, lo, hi) == UNION {[1..n -> S] : n \in lo..hi}

-----------------------------------------------------------------------------
(* breakout/indicators.py: the extremum scanner *)

\* (series.iloc[i - window:i + window + 1].drop(series.index[i]) <= current_val).all()
MaxCondStrict(s, w, i) ==
    \A j \in ilocSlice(Len(s), i - w, i + w + 1) \ {i} : iloc(s, j) < iloc(s, i)
MaxCond(s, w, i) ==
    \A j \in ilocSlice(Len(s), i - w, i + w + 1) \ {i} : iloc(s, j) <= iloc(s, i)

\* (series.iloc[i - window:i + window + 1].drop(series.index[i]) >= current_val).all()
MinCond(s, w, i) ==
    \A j \in ilocSlice(Len(s), i - w, i + w + 1) \ {i} : iloc(s, j) >= iloc(s, i)

\* the loop bounds of both scanners: range(window, n - window)
ScanRangeShort(n, w) == range(w, n - 1 - w)
ScanRangeLong(n, w) == range(w, n - w + 1)
ScanRange(n, w) == range(w, n - w)

find_local_maxima(s, w) ==
    IF Len(s) = 0 THEN <<>>
    ELSE AscendingList({i \in ScanRange(Len(s), w) : MaxCond(s, w, i)})

find_local_minima(s, w) ==
    IF Len(s) = 0 THEN <<>>
    ELSE AscendingList({i \in ScanRange(Len(s), w) : MinCond(s, w, i)})

-----------------------------------------------------------------------------
(* Scanner specification: a value sequence and a window are drawn, then each *)
(* scanner is called once.                                                  *)

NoFrame == <<>>
Zero == [num |-> 0, den |-> 1]

InitScan ==
    /\ series \in AllSeqs(1..MaxVal, 0, MaxScanLen)
    /\ window \in 1..MaxWindow
    /\ df = NoFrame /\ k = Zero /\ period = 1 /\ lookahead = 1
    /\ ran = {}
    /\ maxima_idx = <<>> /\ minima_idx = <<>> /\ atr = <<>>
    /\ failures = <<>> /\ logged_error = FALSE
    /\ high_zone = <<>> /\ low_zone = <<>> /\ vrz_failures = <<>>

FindLocalMaxima ==
    /\ "find_local_maxima" \notin ran
    /\ maxima_idx' = find_local_maxima(series, window)
    /\ ran' = ran \cup {"find_local_maxima"}
    /\ UNCHANGED <<series, df, k, window, period, lookahead, minima_idx, atr,
                   failures, logged_error, high_zone, low_zone, vrz_failures>>

FindLocalMinima ==
    /\ "find_local_minima" \notin ran
    /\ minima_idx' = find_local_minima(series, window)
    /\ ran' = ran \cup {"find_local_minima"}
    /\ UNCHANGED <<series, df, k, window, period, lookahead, maxima_idx, atr,
                   failures, logged_error, high_zone, low_zone, vrz_failures>>

NextScan == FindLocalMaxima \/ FindLocalMinima

SpecScan == InitScan /\ [][NextScan]_vars

ScanDone == ran = {"find_local_maxima", "find_local_minima"}

ListSet(l) == {l[x] : x \in 1..Len(l)}
IsAscending(l) == \A x \in 1..(Len(l) - 1) : l[x] < l[x + 1]

\* value[i] >= value[j] for every other j in [i-window, i+window]
BeatsAll(s, w, i) ==
    \A j \in (i - w)..(i + w) : (j # i /\ 0 <= j /\ j < Len(s)) => iloc(s, i) >= iloc(s, j)
BeatenByAll(s, w, i) ==
    \A j \in (i - w)..(i + w) : (j # i /\ 0 <= j /\ j < Len(s)) => iloc(s, i) <= iloc(s, j)

\* C4 (as stated): the scanners return, ascending, exactly the qualifying
\* indices of the half-open range [window, n-1-window).
C4_Original ==
    ScanDone =>
        LET n == Len(series)
            R == {i \in 0..(n - 1) : window <= i /\ i < n - 1 - window}
        IN  /\ IsAscending(maxima_idx) /\ IsAscending(minima_idx)
            /\ ListSet(maxima_idx) = {i \in R : BeatsAll(series, window, i)}
            /\ ListSet(minima_idx) = {i \in R : BeatenByAll(series, window, i)}

\* C4 (amended): the scanners return, in ascending order, exactly the indices
\* i with window <= i <= n-1-window (the half-open range [window, n-window))
\* whose value ties or beats every other value in [i-window, i+window]; no
\* index outside that range is returned.
C4_Scanner ==
    ScanDone =>
        LET n == Len(series)
            R == {i \in 0..(n - 1) : window <= i /\ i <= n - 1 - window}
        IN  /\ IsAscending(maxima_idx) /\ IsAscending(minima_idx)
            /\ ListSet(maxima_idx) = {i \in R : BeatsAll(series, window, i)}
            /\ ListSet(minima_idx) = {i \in R : BeatenByAll(series, window, i)}

\* both scanners returned several indices, the last of them n-1-window, and
\* an in-range index was rejected
C4_Witness ==
    /\ ScanDone
    /\ Len(maxima_idx) >= 2 /\ Len(minima_idx) >= 1
    /\ maxima_idx[Len(maxima_idx)] = Len(series) - 1 - window
    /\ \E i \in window..(Len(series) - 1 - window) : i \notin ListSet(maxima_idx)

Flat(s, w, m) == \A j \in (m - w)..(m + w) : iloc(s, j) = iloc(s, m)

\* C5: a flat segment of length 2*window+1 centred at m (lying inside the
\* sequence) makes m both a local maximum and a local minimum.
C5_Ties ==
    ScanDone =>
        \A m \in 0..(Len(series) - 1) :
            (m - window >= 0 /\ m + window <= Len(series) - 1 /\ Flat(series, window, m))
                => (m \in ListSet(maxima_idx) /\ m \in ListSet(minima_idx))

\* a flat segment that ends at the last index of a longer, non-constant sequence
C5_Witness ==
    /\ ScanDone
    /\ Len(series) > 2 * window + 1
    /\ Flat(series, window, Len(series) - 1 - window)
    /\ iloc(series, 0) # iloc(series, Len(series) - 1)
    /\ (Len(series) - 1 - window) \in ListSet(maxima_idx)
    /\ (Len(series) - 1 - window) \in ListSet(minima_idx)

-----------------------------------------------------------------------------
(* float values: an exact rational num/den with den > 0, or NaN.  A        *)
(* comparison with NaN is False, arithmetic on NaN gives NaN, and 0/0 is   *)
(* NaN (pandas raises nothing).  A non-zero value is never divided by zero *)
(* here: the only divisor that can be 0 is a cumulative volume, and with   *)
(* non-negative volumes its numerator is then 0 too.                       *)

NaN == [nan |-> TRUE, num |-> 0, den |-> 1]
Num(n) == [nan |-> FALSE, num |-> n, den |-> 1]
Frac(n, d) == [nan |-> FALSE, num |-> n, den |-> d]
isna(a) == a.nan

Abs(n) == IF n < 0 THEN -n ELSE n

fadd(a, b) == IF a.nan \/ b.nan THEN NaN
              ELSE Frac(a.num * b.den + b.num * a.den, a.den * b.den)
fsub(a, b) == IF a.nan \/ b.nan THEN NaN
              ELSE Frac(a.num * b.den - b.num * a.den, a.den * b.den)
fmul(a, b) == IF a.nan \/ b.nan THEN NaN
              ELSE Frac(a.num * b.num, a.den * b.den)
fdiv(a, b) == IF a.nan \/ b.nan \/ b.num = 0 THEN NaN
              ELSE IF b.num > 0 THEN Frac(a.num * b.den, a.den * b.num)
              ELSE Frac(-(a.num * b.den), a.den * (-b.num))
fabs(a) == IF a.nan THEN NaN ELSE Frac(Abs(a.num), a.den)

fgt(a, b) == ~a.nan /\ ~b.nan /\ a.num * b.den > b.num * a.den
flt(a, b) == ~a.nan /\ ~b.nan /\ a.num * b.den < b.num * a.den
feq(a, b) == ~a.nan /\ ~b.nan /\ a.num * b.den = b.num * a.den

\* a column of a frame: the sequence of one field's values, as floats
Column(frame, f) == [x \in 1..Len(frame) |-> Num(frame[x][f])]
\* elementwise arithmetic on aligned columns
ColSub(a, b) == [x \in 1..Len(a) |-> fsub(a[x], b[x])]
ColAbs(a) == [x \in 1..Len(a) |-> fabs(a[x])]

\* Series.shift(1): row 0 becomes NaN, row i takes row i-1
shift1(col) == [x \in 1..Len(col) |-> IF x = 1 THEN NaN ELSE col[x - 1]]

\* max over a set of floats, skipping NaN (DataFrame.max(axis=1)); NaN when
\* every entry is NaN
MaxSkipNa(S) ==
    LET D == {a \in S : ~a.nan}
    IN  IF D = {} THEN NaN
        ELSE CHOOSE a \in D : \A b \in D : ~flt(a, b)
RECURSIVE FSum(_, _)
\* sum of the non-NaN entries of col at the 1-based positions in S
FSum(col, S) ==
    IF S = {} THEN Num(0)
    ELSE LET x == CHOOSE y \in S : TRUE
         IN  IF col[x].nan THEN FSum(col, S \ {x})
             ELSE fadd(col[x], FSum(col, S \ {x}))

\* Series.rolling(w, min_periods=mp).mean() at 0-based row i: the mean of the
\* non-NaN observations among rows max(0, i-w+1)..i, NaN when fewer than mp
RollingMeanAt(col, w, mp, i) ==
    LET lo == IF i - w + 1 < 0 THEN 0 ELSE i - w + 1
        W == {x \in (lo + 1)..(i + 1) : ~col[x].nan}
    IN  IF Cardinality(W) < mp THEN NaN
        ELSE fdiv(FSum(col, W), Num(Cardinality(W)))

\* Series.rolling(w, min_periods=w).mean(): NaN until the window is full
RollingFull(col, w) == [x \in 1..Len(col) |-> RollingMeanAt(col, w, w, x - 1)]
\* Series.rolling(w, min_periods=1).mean()
RollingMin1(col, w) == [x \in 1..Len(col) |-> RollingMeanAt(col, w, 1, x - 1)]

-----------------------------------------------------------------------------
(* breakout/indicators.py: compute_atr *)

\* tr = pd.concat([h_l, h_pc, l_pc], axis=1).max(axis=1)
TrueRange(frame) ==
    LET h_l == ColSub(Column(frame, "High"), Column(frame, "Low"))
        h_pc == ColAbs(ColSub(Column(frame, "High"), shift1(Column(frame, "Close"))))
        l_pc == ColAbs(ColSub(Column(frame, "Low"), shift1(Column(frame, "Close"))))
    IN  [x \in 1..Len(frame) |-> MaxSkipNa({h_l[x], h_pc[x], l_pc[x]})]

\* atr = tr.rolling(period, min_periods=1).mean()
compute_atr_full(frame, p) == RollingFull(TrueRange(frame), p)
compute_atr(frame, p) == RollingMin1(TrueRange(frame), p)

-----------------------------------------------------------------------------
(* ATR specification: a frame of valid bars and a period are drawn, then     *)
(* compute_atr is called.                                                   *)

MaxAtrLen == 3
MaxAtrPrice == 3
MaxPeriod == 3

\* rows with low <= close <= high over the prices P and the volumes V
Bars(P, V) ==
    {[High |-> h, Low |-> l, Close |-> c, Volume |-> v] :
        h \in P, l \in P, c \in P, v \in V} 

ValidBars(P, V) == {b \in Bars(P, V) : b.Low <= b.Close /\ b.Close <= b.High}

InitATR ==
    /\ df \in AllSeqs(ValidBars(1..MaxAtrPrice, {1}), 1, MaxAtrLen)
    /\ period \in 1..MaxPeriod
    /\ series = <<>> /\ k = Zero /\ window = 1 /\ lookahead = 1
    /\ ran = {}
    /\ maxima_idx = <<>> /\ minima_idx = <<>> /\ atr = <<>>
    /\ failures = <<>> /\ logged_error = FALSE
    /\ high_zone = <<>> /\ low_zone = <<>> /\ vrz_failures = <<>>

ComputeAtr ==
    /\ "compute_atr" \notin ran
    /\ atr' = compute_atr(df, period)
    /\ ran' = ran \cup {"compute_atr"}
    /\ UNCHANGED <<series, df, k, window, period, lookahead, maxima_idx,
                   minima_idx, failures, logged_error, high_zone, low_zone, vrz_failures>>

NextATR == ComputeAtr

SpecATR == InitATR /\ [][NextATR]_vars

Max2(a, b) == IF a >= b THEN a ELSE b

\* true_range[0] = high[0]-low[0]; for i >= 1 the largest of high-low,
\* |high - previous close| and |low - previous close|
TrueRangeAt(i) ==
    IF i = 0 THEN iloc(df, 0).High - iloc(df, 0).Low
    ELSE Max2(iloc(df, i).High - iloc(df, i).Low,
              Max2(Abs(iloc(df, i).High - iloc(df, i - 1).Close),
                   Abs(iloc(df, i).Low - iloc(df, i - 1).Close)))

RECURSIVE SumTrueRange(_, _)
SumTrueRange(lo, hi) ==
    IF hi < lo THEN 0 ELSE TrueRangeAt(hi) + SumTrueRange(lo, hi - 1)

\* C7: warm-start ATR.  For a non-empty frame and period >= 1 the ATR is
\* defined at every row, and atr[i] is the arithmetic mean of true_range over
\* rows max(0, i-period+1)..i, with true_range[0] = high[0]-low[0].
C7_WarmStartATR ==
    "compute_atr" \in ran =>
        /\ Len(atr) = Len(df)
        /\ \A i \in 0..(Len(df) - 1) :
              LET lo == Max2(0, i - period + 1)
              IN  /\ ~isna(iloc(atr, i))
                  /\ iloc(atr, i).num * (i - lo + 1) =
                         SumTrueRange(lo, i) * iloc(atr, i).den

\* a row before the window is full (and past row 0) whose true range comes
\* from the gap to the previous close, and a later row with a full window
C7_Witness ==
    /\ "compute_atr" \in ran
    /\ Len(df) = 3 /\ period = 2
    /\ TrueRangeAt(1) > iloc(df, 1).High - iloc(df, 1).Low
    /\ TrueRangeAt(2) # TrueRangeAt(0)
    /\ ~isna(iloc(atr, 0))

-----------------------------------------------------------------------------
(* breakout/analyzer.py: analyze_vrz_vwap, the VWAP band detector.          *)
(* get_intraday_data is the bar provider: the frame it returns (after       *)
(* dropna().reset_index()) is the input df, with Date the former index.     *)
(* Timestamps are the bars' ordinals, which keeps their order and           *)
(* distinctness.  company and ticker are copied into every event unchanged  *)
(* and are left out.                                                        *)

RECURSIVE CumPV(_, _)
\* (Volume * (High + Low + Close)).cumsum() at 1-based row x
CumPV(frame, x) ==
    IF x = 0 THEN 0
    ELSE frame[x].Volume * (frame[x].High + frame[x].Low + frame[x].Close)
         + CumPV(frame, x - 1)

RECURSIVE CumVolume(_, _)
\* Volume.cumsum() at 1-based row x
CumVolume(frame, x) ==
    IF x = 0 THEN 0 ELSE frame[x].Volume + CumVolume(frame, x - 1)

RECURSIVE SumRange(_, _, _)
\* (High - Low) summed over 1-based rows lo..hi
SumRange(frame, lo, hi) ==
    IF hi < lo THEN 0
    ELSE (frame[hi].High - frame[hi].Low) + SumRange(frame, lo, hi - 1)

\* df["VWAP"] = (Volume * (High + Low + Close) / 3).cumsum() / Volume.cumsum()
\* at 1-based row x; the division by 3 distributes over the cumulative sum
vwap_fillna(frame, x) ==
    IF CumVolume(frame, x) = 0 THEN Num(0)
    ELSE fdiv(Frac(CumPV(frame, x), 3), Num(CumVolume(frame, x)))
vwap(frame, x) == fdiv(Frac(CumPV(frame, x), 3), Num(CumVolume(frame, x)))

\* df["ATR"] = (High - Low).rolling(window=window, min_periods=1).mean()
\* at 1-based row x: High - Low is never NaN, so the mean is over rows
\* max(1, x-w+1)..x
range_avg(frame, w, x) ==
    LET lo == IF x - w + 1 < 1 THEN 1 ELSE x - w + 1
    IN  Frac(SumRange(frame, lo, x), x - lo + 1)

\* a variant whose lower band adds k*ATR instead of subtracting it
with_bands_sign_slip(frame, kk, w) ==
    [x \in 1..Len(frame) |->
        [Date |-> frame[x].Date, High |-> frame[x].High, Low |-> frame[x].Low,
         Close |-> frame[x].Close, Volume |-> frame[x].Volume,
         VWAP |-> vwap(frame, x), ATR |-> range_avg(frame, w, x),
         upper_band |-> fadd(vwap(frame, x), fmul(kk, range_avg(frame, w, x))),
         lower_band |-> fadd(vwap(frame, x), fmul(kk, range_avg(frame, w, x)))]]
\* the frame with the four computed columns added (lines 72-79)
with_bands(frame, kk, w) ==
    [x \in 1..Len(frame) |->
        [Date |-> frame[x].Date, High |-> frame[x].High, Low |-> frame[x].Low,
         Close |-> frame[x].Close, Volume |-> frame[x].Volume,
         VWAP |-> vwap(frame, x), ATR |-> range_avg(frame, w, x),
         upper_band |-> fadd(vwap(frame, x), fmul(kk, range_avg(frame, w, x))),
         lower_band |-> fsub(vwap(frame, x), fmul(kk, range_avg(frame, w, x)))]]

HighFailure(t) == [location |-> "VRZ High Failure", failure_time |-> t]
LowFailure(t) == [location |-> "VRZ Low Failure", failure_time |-> t]

\* the if / elif of one loop iteration (lines 83-103): the events row i appends
row_failures(b, i) ==
    LET prev_close == Num(iloc(b, i - 1).Close)
        curr_close == Num(iloc(b, i).Close)
        prev_upper == iloc(b, i - 1).upper_band
        curr_upper == iloc(b, i).upper_band
        prev_lower == iloc(b, i - 1).lower_band
        curr_lower == iloc(b, i).lower_band
    IN  IF fgt(prev_close, prev_upper) /\ flt(curr_close, curr_upper)
        THEN <<HighFailure(iloc(b, i).Date)>>
        ELSE IF flt(prev_close, prev_lower) /\ fgt(curr_close, curr_lower)
        THEN <<LowFailure(iloc(b, i).Date)>>
        ELSE <<>>

RECURSIVE loop_from(_, _)
\* for i in range(i, len(df)): ...
loop_from(b, i) ==
    IF i >= Len(b) THEN <<>> ELSE row_failures(b, i) \o loop_from(b, i + 1)

\* a two-pass variant: every upper-band event first, then every lower-band one
two_pass_failures(b) ==
    LET all == loop_from(b, 1)
    IN  SelectSeq(all, LAMBDA e : e.location = "VRZ High Failure")
        \o SelectSeq(all, LAMBDA e : e.location = "VRZ Low Failure")
\* a variant that stamps the event with the previous bar's time
RECURSIVE loop_prev_time(_, _)
loop_prev_time(b, i) ==
    IF i >= Len(b) THEN <<>>
    ELSE [x \in 1..Len(row_failures(b, i)) |->
             [location |-> row_failures(b, i)[x].location,
              failure_time |-> iloc(b, i - 1).Date]]
         \o loop_prev_time(b, i + 1)
prev_time_failures(b) == loop_prev_time(b, 1)

\* failures = []; for i in range(1, len(df)): ... (lines 81-103)
band_failures(b) == loop_from(b, 1)

\* whether a statement of the try block (lines 66-105) raises: none does on a
\* non-empty frame.  pandas float division by zero gives NaN without raising
\* and every iloc index of the loop lies inside the frame.
try_raises(frame) == FALSE

AnalyzeVrzVwap ==
    /\ "analyze_vrz_vwap" \notin ran
    /\ ran' = ran \cup {"analyze_vrz_vwap"}
    /\ IF Len(df) = 0
       THEN \* df is None or df.empty: return [], pd.DataFrame()
            /\ failures' = <<>>
            /\ df' = <<>>
            /\ UNCHANGED logged_error
       ELSE IF try_raises(df)
       THEN \* except Exception: logger.error(...); return [], pd.DataFrame()
            /\ failures' = <<>>
            /\ df' = <<>>
            /\ logged_error' = TRUE
       ELSE /\ df' = with_bands(df, k, window)
            /\ failures' = band_failures(df')
            /\ UNCHANGED logged_error
    /\ UNCHANGED <<series, k, window, period, lookahead, maxima_idx, minima_idx,
                   atr, high_zone, low_zone, vrz_failures>>

-----------------------------------------------------------------------------
(* Band specification: a frame of valid bars with non-negative volume, a    *)
(* multiplier and a window are drawn, then analyze_vrz_vwap is called.      *)

MaxBandLen == 4
BandPrices == {1, 2}
BandVolumes == {0, 1}
KSet == {Frac(-1, 1), Frac(0, 1), Frac(1, 2), Frac(2, 1)}

\* reset_index(): the Date column, here the bar's ordinal
WithDates(rows) ==
    [x \in 1..Len(rows) |->
        [Date |-> x - 1, High |-> rows[x].High, Low |-> rows[x].Low,
         Close |-> rows[x].Close, Volume |-> rows[x].Volume]]

InitBand ==
    /\ \E rows \in AllSeqs(ValidBars(BandPrices, BandVolumes), 0, MaxBandLen) :
          df = WithDates(rows)
    /\ k \in KSet
    /\ window \in 1..MaxWindow
    /\ series = <<>> /\ period = 1 /\ lookahead = 1
    /\ ran = {}
    /\ maxima_idx = <<>> /\ minima_idx = <<>> /\ atr = <<>>
    /\ failures = <<>> /\ logged_error = FALSE
    /\ high_zone = <<>> /\ low_zone = <<>> /\ vrz_failures = <<>>

NextBand == AnalyzeVrzVwap

SpecBand == InitBand /\ [][NextBand]_vars

Analyzed == "analyze_vrz_vwap" \in ran

close(i) == Num(iloc(df, i).Close)
upper(i) == iloc(df, i).upper_band
lower(i) == iloc(df, i).lower_band
timestamp(i) == iloc(df, i).Date

UpperCross(i) == fgt(close(i - 1), upper(i - 1)) /\ flt(close(i), upper(i))
LowerCross(i) == flt(close(i - 1), lower(i - 1)) /\ fgt(close(i), lower(i))

EventsAt(loc, t) == {x \in 1..Len(failures) :
                        failures[x].location = loc /\ failures[x].failure_time = t}

\* C1: after the band detector ran on n bars, for every i in 1..n-1 an
\* upper-band event at timestamp[i] exists iff close[i-1] > upper[i-1] and
\* close[i] < upper[i] (and then exactly one), a lower-band event at
\* timestamp[i] exists iff close[i-1] < lower[i-1] and close[i] > lower[i]
\* (and then exactly one), every event is one of these, and a crossing spread
\* over three bars with close[i] = upper[i] yields no event at i or i+1.
C1_BandDetector ==
    Analyzed =>
        /\ \A i \in 1..(Len(df) - 1) :
              /\ Cardinality(EventsAt("VRZ High Failure", timestamp(i))) =
                     (IF UpperCross(i) THEN 1 ELSE 0)
              /\ Cardinality(EventsAt("VRZ Low Failure", timestamp(i))) =
                     (IF LowerCross(i) THEN 1 ELSE 0)
        /\ \A x \in 1..Len(failures) :
              \E i \in 1..(Len(df) - 1) :
                  /\ failures[x].failure_time = timestamp(i)
                  /\ \/ failures[x].location = "VRZ High Failure" /\ UpperCross(i)
                     \/ failures[x].location = "VRZ Low Failure" /\ LowerCross(i)
        /\ \A i \in 1..(Len(df) - 2) :
              (fgt(close(i - 1), upper(i - 1)) /\ feq(close(i), upper(i))
                   /\ flt(close(i + 1), upper(i + 1)))
                  => \A x \in 1..Len(failures) :
                         failures[x].failure_time \notin {timestamp(i), timestamp(i + 1)}

\* a run with an upper-band event and a lower-band event
C1_Witness ==
    /\ Analyzed
    /\ \E i \in 1..(Len(df) - 1) : UpperCross(i) /\ EventsAt("VRZ High Failure", timestamp(i)) # {}
    /\ \E i \in 1..(Len(df) - 1) : LowerCross(i) /\ EventsAt("VRZ Low Failure", timestamp(i)) # {}

\* a run with a crossing spread over three bars (close[i] = upper[i])
GradualCrossingSeen ==
    /\ Analyzed
    /\ \E i \in 1..(Len(df) - 2) :
          fgt(close(i - 1), upper(i - 1)) /\ feq(close(i), upper(i))
              /\ flt(close(i + 1), upper(i + 1))

AllZeroVolume == \A x \in 1..Len(df) : df[x].Volume = 0

\* C2: the detector never takes its error branch; VWAP at row i is undefined
\* exactly when the cumulative volume over rows 0..i is 0; and when every
\* bar has volume 0, VWAP and both bands are undefined at every row and no
\* event is returned.
C2_ZeroVolume ==
    Analyzed =>
        /\ ~logged_error
        /\ \A x \in 1..Len(df) : isna(df[x].VWAP) <=> (CumVolume(df, x) = 0)
        /\ AllZeroVolume =>
              /\ failures = <<>>
              /\ \A x \in 1..Len(df) :
                    isna(df[x].VWAP) /\ isna(df[x].upper_band) /\ isna(df[x].lower_band)

\* several zero-volume bars with moving closes were analysed
C2_Witness ==
    /\ Analyzed /\ ~logged_error
    /\ Len(df) >= 3 /\ AllZeroVolume
    /\ iloc(df, 0).Close > iloc(df, 1).Close /\ iloc(df, 1).Close < iloc(df, 2).Close
    /\ \A x \in 1..Len(df) : isna(df[x].VWAP)
    /\ failures = <<>>

\* C10: with k >= 0 the returned events have strictly increasing
\* failure_time, no row satisfies both the upper-band and the lower-band
\* condition (so each row contributes at most one event), and a frame with
\* fewer than 2 bars yields no event.
C10_BandOrdering ==
    (Analyzed /\ k.num >= 0) =>
        /\ \A x \in 1..(Len(failures) - 1) :
              failures[x].failure_time < failures[x + 1].failure_time
        /\ \A i \in 1..(Len(df) - 1) :
              /\ ~(UpperCross(i) /\ LowerCross(i))
              /\ Cardinality({x \in 1..Len(failures) :
                                 failures[x].failure_time = timestamp(i)}) <= 1
        /\ Len(df) < 2 => failures = <<>>

\* a run with k >= 0 that returned a lower-band event followed by an
\* upper-band event
C10_Witness ==
    /\ Analyzed /\ k.num >= 0
    /\ \E x \in 1..(Len(failures) - 1) :
          /\ failures[x].location = "VRZ Low Failure"
          /\ failures[x + 1].location = "VRZ High Failure"

-----------------------------------------------------------------------------
(* Rising specification: the band detector on frames whose high, low and    *)
(* close each rise strictly from bar to bar, with one positive volume on    *)
(* every bar and k >= 0.  Open is read by no computation; taking            *)
(* open = low gives every such frame a strictly rising, valid open.         *)

MaxRiseLen == 3
MaxRisePrice == 4
RiseVolumes == {1, 2}

StrictlyRising(rows) ==
    \A x \in 1..(Len(rows) - 1) :
        /\ rows[x].High < rows[x + 1].High
        /\ rows[x].Low < rows[x + 1].Low
        /\ rows[x].Close < rows[x + 1].Close

RECURSIVE RisingSeqs(_, _)
\* the strictly rising sequences of exactly n bars of B
RisingSeqs(B, n) ==
    IF n = 1 THEN {<<b>> : b \in B}
    ELSE {Append(rows, b) : rows \in RisingSeqs(B, n - 1), b \in B} \cap
         {rows \in Seq(B) : StrictlyRising(rows)}

InitRising ==
    /\ \E v \in RiseVolumes : \E n \in 1..MaxRiseLen :
          \E rows \in RisingSeqs(ValidBars(1..MaxRisePrice, {v}), n) :
              df = WithDates(rows)
    /\ k \in {kk \in KSet : kk.num >= 0}
    /\ window \in 1..MaxWindow
    /\ series = <<>> /\ period = 1 /\ lookahead = 1
    /\ ran = {}
    /\ maxima_idx = <<>> /\ minima_idx = <<>> /\ atr = <<>>
    /\ failures = <<>> /\ logged_error = FALSE
    /\ high_zone = <<>> /\ low_zone = <<>> /\ vrz_failures = <<>>

NextRising == AnalyzeVrzVwap

SpecRising == InitRising /\ [][NextRising]_vars

NoLowerBandFailure ==
    /\ \A i \in 1..(Len(df) - 1) : ~LowerCross(i)
    /\ \A x \in 1..Len(failures) : failures[x].location # "VRZ Low Failure"

ClosesAtOrAboveTypical == \A x \in 1..Len(df) : 2 * df[x].Close >= df[x].High + df[x].Low

-----------------------------------------------------------------------------
(* The VRZ strategy: zone builder and lookahead detector                    *)
(* (detect_vrz_failures).  Its code is not among the source files: only the *)
(* event fields break_time and close_at_failure are declared                *)
(* (api/main.py, FailureResponse).  It is modelled from the design: zones   *)
(* anchored at the local extrema found by find_local_maxima /               *)
(* find_local_minima, offset by k * compute_atr, carried forward; then one  *)
(* high-zone pass followed by one low-zone pass.                            *)

\* period of the ATR row: compute_atr's default
ATRPeriod == 14

HighColumn(frame) == [x \in 1..Len(frame) |-> frame[x].High]
LowColumn(frame) == [x \in 1..Len(frame) |-> frame[x].Low]

\* 0-based rows of the anchors at or before row i
AnchorsUpTo(idx, i) == {a \in ListSet(idx) : a <= i}
LastAnchor(idx, i) == CHOOSE a \in AnchorsUpTo(idx, i) : \A b \in AnchorsUpTo(idx, i) : b <= a

\* forward-filled high zone at row i: high + k*ATR at the most recent local
\* maximum at or before i whose ATR is defined; undefined before the first
zone_high(frame, maxima, atrrow, kk, i) ==
    LET idx == SelectSeq(maxima, LAMBDA a : ~isna(iloc(atrrow, a)))
    IN  IF AnchorsUpTo(idx, i) = {} THEN NaN
        ELSE LET a == LastAnchor(idx, i)
             IN  fadd(Num(iloc(frame, a).High), fmul(kk, iloc(atrrow, a)))

\* forward-filled low zone at row i: low - k*ATR at the most recent local minimum
zone_low(frame, minima, atrrow, kk, i) ==
    LET idx == SelectSeq(minima, LAMBDA a : ~isna(iloc(atrrow, a)))
    IN  IF AnchorsUpTo(idx, i) = {} THEN NaN
        ELSE LET a == LastAnchor(idx, i)
             IN  fsub(Num(iloc(frame, a).Low), fmul(kk, iloc(atrrow, a)))

VrzEvent(loc, frame, i, j) ==
    [location |-> loc, break_time |-> iloc(frame, i).Date,
     failure_time |-> iloc(frame, j).Date, close_at_failure |-> iloc(frame, j).Close]

RECURSIVE scan_back_below(_, _, _, _, _)
\* scan j..last for the first close below the zone value z held at i
scan_back_below(frame, z, i, j, last) ==
    IF j > last THEN <<>>
    ELSE IF flt(Num(iloc(frame, j).Close), z) THEN <<VrzEvent("VRZ High", frame, i, j)>>
    ELSE scan_back_below(frame, z, i, j + 1, last)

RECURSIVE scan_back_above(_, _, _, _, _)
scan_back_above(frame, z, i, j, last) ==
    IF j > last THEN <<>>
    ELSE IF fgt(Num(iloc(frame, j).Close), z) THEN <<VrzEvent("VRZ Low", frame, i, j)>>
    ELSE scan_back_above(frame, z, i, j + 1, last)

Min2(a, b) == IF a <= b THEN a ELSE b

RECURSIVE scan_moving_zone(_, _, _, _, _)
\* a variant that compares close[j] with the zone held at j, not at i
scan_moving_zone(frame, zrow, i, j, last) ==
    IF j > last THEN <<>>
    ELSE IF flt(Num(iloc(frame, j).Close), iloc(zrow, j))
         THEN <<VrzEvent("VRZ High", frame, i, j)>>
    ELSE scan_moving_zone(frame, zrow, i, j + 1, last)
RECURSIVE high_pass_moving_zone(_, _, _, _)
high_pass_moving_zone(frame, zrow, L, i) ==
    IF i >= Len(frame) THEN <<>>
    ELSE (IF fgt(Num(iloc(frame, i).Close), iloc(zrow, i))
          THEN scan_moving_zone(frame, zrow, i, i + 1, Min2(i + L, Len(frame) - 1))
          ELSE <<>>)
         \o high_pass_moving_zone(frame, zrow, L, i + 1)

RECURSIVE high_pass(_, _, _, _)
\* every row from i on that closes above its high zone, scanned forward
high_pass(frame, zrow, L, i) ==
    IF i >= Len(frame) THEN <<>>
    ELSE (IF fgt(Num(iloc(frame, i).Close), iloc(zrow, i))
          THEN scan_back_below(frame, iloc(zrow, i), i, i + 1,
                               Min2(i + L, Len(frame) - 1))
          ELSE <<>>)
         \o high_pass(frame, zrow, L, i + 1)

RECURSIVE low_pass(_, _, _, _)
low_pass(frame, zrow, L, i) ==
    IF i >= Len(frame) THEN <<>>
    ELSE (IF flt(Num(iloc(frame, i).Close), iloc(zrow, i))
          THEN scan_back_above(frame, iloc(zrow, i), i, i + 1,
                               Min2(i + L, Len(frame) - 1))
          ELSE <<>>)
         \o low_pass(frame, zrow, L, i + 1)

\* a variant that stops at the first breakout row that has a reversal
high_zone_failures_first_only(frame, zrow, L) ==
    IF high_pass(frame, zrow, L, 0) = <<>> THEN <<>>
    ELSE <<Head(high_pass(frame, zrow, L, 0))>>
\* the high-zone pass from row 0
high_zone_failures_moving(frame, zrow, L) == high_pass_moving_zone(frame, zrow, L, 0)
high_zone_failures(frame, zrow, L) == high_pass(frame, zrow, L, 0)
low_zone_failures(frame, zrow, L) == low_pass(frame, zrow, L, 0)

\* detect_vrz_failures: the high-zone pass, then the low-zone pass
detect_vrz_failures(frame, hrow, lrow, L) ==
    high_zone_failures(frame, hrow, L) \o low_zone_failures(frame, lrow, L)

DetectVrzFailures ==
    /\ "detect_vrz_failures" \notin ran
    /\ ran' = ran \cup {"detect_vrz_failures"}
    /\ atr' = compute_atr(df, ATRPeriod)
    /\ maxima_idx' = find_local_maxima(HighColumn(df), window)
    /\ minima_idx' = find_local_minima(LowColumn(df), window)
    /\ high_zone' = [x \in 1..Len(df) |-> zone_high(df, maxima_idx', atr', k, x - 1)]
    /\ low_zone' = [x \in 1..Len(df) |-> zone_low(df, minima_idx', atr', k, x - 1)]
    /\ vrz_failures' = detect_vrz_failures(df, high_zone', low_zone', lookahead)
    /\ UNCHANGED <<series, df, k, window, period, lookahead, failures, logged_error>>

-----
(* VRZ specification: a frame over a few bar shapes, k, a window and a      *)
(* lookahead are drawn, then detect_vrz_failures is called.                 *)

MaxVrzLen == 6
MaxLookahead == 2
VrzWindows == {1, 2}
\* K_FACTOR defaults to 1.5 (settings.py)
VrzK == {Frac(3, 2)}

Bar(h, l, c) == [High |-> h, Low |-> l, Close |-> c, Volume |-> 1]
\* two narrow bars at rising levels, and a wide bar closing at its low / high
VrzBars == {Bar(2, 2, 2), Bar(3, 3, 3), Bar(4, 0, 0), Bar(4, 0, 4)}

InitVRZ ==
    /\ \E rows \in AllSeqs(VrzBars, 0, MaxVrzLen) : df = WithDates(rows)
    /\ k \in VrzK
    /\ window \in VrzWindows
    /\ lookahead \in 1..MaxLookahead
    /\ series = <<>> /\ period = ATRPeriod
    /\ ran = {}
    /\ maxima_idx = <<>> /\ minima_idx = <<>> /\ atr = <<>>
    /\ failures = <<>> /\ logged_error = FALSE
    /\ high_zone = <<>> /\ low_zone = <<>> /\ vrz_failures = <<>>

NextVRZ == DetectVrzFailures

SpecVRZ == InitVRZ /\ [][NextVRZ]_vars

VrzDone == "detect_vrz_failures" \in ran

zh(i) == iloc(high_zone, i)
zl(i) == iloc(low_zone, i)
LastScanned(i) == Min2(i + lookahead, Len(df) - 1)

\* i breaks out above its high zone and j is the first row within the
\* lookahead that closes back below the zone value held at i
HighPair(i, j) ==
    /\ fgt(close(i), zh(i))
    /\ i < j /\ j <= LastScanned(i)
    /\ flt(close(j), zh(i))
    /\ \A j2 \in (i + 1)..(j - 1) : ~flt(close(j2), zh(i))

LowPair(i, j) ==
    /\ flt(close(i), zl(i))
    /\ i < j /\ j <= LastScanned(i)
    /\ fgt(close(j), zl(i))
    /\ \A j2 \in (i + 1)..(j - 1) : ~fgt(close(j2), zl(i))

Rows == 0..(Len(df) - 1)
VrzEventsOf(loc) == {x \in 1..Len(vrz_failures) : vrz_failures[x].location = loc}

\* C8: every high-zone event is VrzEvent(i, j) for a breakout row i and its
\* first reversal row j (measured against the zone value held at i), every
\* such pair has its event, and a breakout row has at most one event; the
\* low-zone pass mirrors this.
C8_VrzDetector ==
    VrzDone =>
        /\ \A x \in VrzEventsOf("VRZ High") :
              \E i \in Rows : \E j \in Rows :
                  HighPair(i, j) /\ vrz_failures[x] = VrzEvent("VRZ High", df, i, j)
        /\ \A x \in VrzEventsOf("VRZ Low") :
              \E i \in Rows : \E j \in Rows :
                  LowPair(i, j) /\ vrz_failures[x] = VrzEvent("VRZ Low", df, i, j)
        /\ \A x \in 1..Len(vrz_failures) :
              vrz_failures[x].location \in {"VRZ High", "VRZ Low"}
        /\ \A i \in Rows :
              /\ Cardinality({x \in VrzEventsOf("VRZ High") :
                                 vrz_failures[x].break_time = timestamp(i)}) <= 1
              /\ Cardinality({x \in VrzEventsOf("VRZ Low") :
                                 vrz_failures[x].break_time = timestamp(i)}) <= 1
              /\ \A j \in Rows :
                    /\ HighPair(i, j) =>
                          \E x \in VrzEventsOf("VRZ High") :
                              vrz_failures[x] = VrzEvent("VRZ High", df, i, j)
                    /\ LowPair(i, j) =>
                          \E x \in VrzEventsOf("VRZ Low") :
                              vrz_failures[x] = VrzEvent("VRZ Low", df, i, j)

\* a high-zone event whose reversal comes two rows after the breakout, past a
\* row where the zone has moved above the breakout's zone value
C8_Witness ==
    /\ VrzDone
    /\ \E x \in VrzEventsOf("VRZ High") :
          /\ vrz_failures[x].failure_time >= vrz_failures[x].break_time + 2
          /\ \E i \in Rows : timestamp(i) = vrz_failures[x].break_time
                              /\ fgt(zh(i + 1), zh(i))

\* a low-zone event whose reversal comes two rows after the breakout
LowZoneEventSeen ==
    /\ VrzDone
    /\ \E x \in VrzEventsOf("VRZ Low") :
          vrz_failures[x].failure_time >= vrz_failures[x].break_time + 2

\* a breakout whose lookahead expires before any reversal
LookaheadExpirySeen ==
    /\ VrzDone
    /\ \E i \in Rows : /\ fgt(close(i), zh(i)) /\ i + lookahead < Len(df) - 1
                       /\ \A j \in Rows : ~HighPair(i, j)
                       /\ \E j \in (i + lookahead + 1)..(Len(df) - 1) : flt(close(j), zh(i))

-----------------------------------------------------------------------------
(* Scenario specification: the 30-bar VRZ scenario.  Bars 0-9 are flat      *)
(* (high 101, low 99, close 100), bar 10 has high 110, bars 11-15 close     *)
(* above 103 = 101 + ATR of the flat segment, bar 16 closes at 95 and the   *)
(* rest of the series stays there; volume 100, window 3, k 1.0, lookahead   *)
(* 10.  The values the scenario leaves open are drawn.                      *)

OHLCV(h, l, c) == [High |-> h, Low |-> l, Close |-> c, Volume |-> 100]

ScenarioRows(c10, up, h16) ==
    [x \in 1..30 |->
        IF x - 1 <= 9 THEN OHLCV(101, 99, 100)
        ELSE IF x - 1 = 10 THEN OHLCV(110, 99, c10)
        ELSE IF x - 1 <= 15
             THEN (IF (x - 1) \in up
                   THEN OHLCV(111 + 2 * (x - 11), 109 + 2 * (x - 11), 110 + 2 * (x - 11))
                   ELSE OHLCV(106, 104, 105))
        ELSE IF x - 1 = 16 THEN OHLCV(h16, 94, 95)
        ELSE OHLCV(96, 94, 95)]

InitScenario ==
    /\ \E c10 \in {100, 102} : \E up \in SUBSET (11..15) : \E h16 \in {96, 125} :
          df = WithDates(ScenarioRows(c10, up, h16))
    /\ k = Frac(1, 1)
    /\ window = 3
    /\ lookahead = 10
    /\ series = <<>> /\ period = ATRPeriod
    /\ ran = {}
    /\ maxima_idx = <<>> /\ minima_idx = <<>> /\ atr = <<>>
    /\ failures = <<>> /\ logged_error = FALSE
    /\ high_zone = <<>> /\ low_zone = <<>> /\ vrz_failures = <<>>

NextScenario == DetectVrzFailures

SpecScenario == InitScenario /\ [][NextScenario]_vars

HighZoneEvents == SelectSeq(vrz_failures, LAMBDA e : e.location = "VRZ High")

\* the data of the scenario: flat bars 0-9, bar 10 with high 110, bars 11-15
\* closing above the zone of the flat segment, bar 16 closing at 95 below it
ScenarioData ==
    /\ Len(df) = 30 /\ window = 3 /\ lookahead = 10 /\ k = Frac(1, 1)
    /\ \A i \in 0..9 : iloc(df, i).High = 101 /\ iloc(df, i).Low = 99 /\ iloc(df, i).Close = 100
    /\ \A i \in 0..29 : iloc(df, i).Volume = 100
    /\ iloc(df, 10).High = 110
    /\ feq(zh(9), Num(103))
    /\ ~fgt(close(10), zh(10))
    /\ \A i \in 11..15 : fgt(close(i), zh(9))
    /\ iloc(df, 16).Close = 95 /\ flt(close(16), zh(9))

\* C9 (as stated): in the scenario, with bar 10 a local maximum,
\* detect_vrz_failures emits exactly one high-zone event, with break_time =
\* bar 11 and failure_time = bar 16.
C9_Original ==
    (VrzDone /\ ScenarioData /\ 10 \in ListSet(maxima_idx)) =>
        /\ Len(HighZoneEvents) = 1
        /\ HighZoneEvents[1].break_time = timestamp(11)
        /\ HighZoneEvents[1].failure_time = timestamp(16)

\* bars 11-15 each close above the high zone held at their own row
BreakoutsAt11To15 == \A i \in 11..15 : fgt(close(i), zh(i))

\* C9 (amended): in the scenario, if bar 10 is a local maximum its anchor
\* lifts the high zone above every close of bars 11-13, so no event has
\* break_time in bars 11-13; and if bars 11-15 each close above the high zone
\* held at their own row, then bar 10 is not a local maximum and each of bars
\* 11-15 yields its own event with failure_time = bar 16 (five events, the
\* first with break_time = bar 11).
C9_Scenario ==
    (VrzDone /\ ScenarioData) =>
        /\ 10 \in ListSet(maxima_idx) =>
              \A x \in 1..Len(HighZoneEvents) :
                  HighZoneEvents[x].break_time \notin {timestamp(11), timestamp(12), timestamp(13)}
        /\ BreakoutsAt11To15 =>
              /\ 10 \notin ListSet(maxima_idx)
              /\ SelectSeq(HighZoneEvents,
                           LAMBDA e : e.break_time \in {timestamp(i) : i \in 11..15})
                     = [x \in 1..5 |-> VrzEvent("VRZ High", df, 10 + x, 16)]
              /\ HighZoneEvents[1].break_time = timestamp(11)

\* the scenario run in which bars 11-15 all break out and five events follow
C9_Witness ==
    /\ VrzDone /\ ScenarioData /\ BreakoutsAt11To15
    /\ Len(HighZoneEvents) = 5

\* the scenario run in which bar 10 is a local maximum
ScenarioLocalMaxSeen ==
    /\ VrzDone /\ ScenarioData /\ 10 \in ListSet(maxima_idx)
    /\ BreakoutsAt11To15 = FALSE

====
